---- MODULE Spec2Model ----
(***************************************************************************)
(* A model of DDG-Chat-go (main.go): the handler of                        *)
(* POST <prefix>/v1/chat/completions.  One request is followed from the    *)
(* credential check to the response the caller receives: the retry loop   *)
(* of handleCompletion, the token acquisition, the upstream call and the   *)
(* translation of the upstream event stream, streamed or aggregated.       *)
(*                                                                         *)
(* Text the code inspects is modelled as a sequence: a header value and a  *)
(* message fragment are sequences of characters, an upstream line is a     *)
(* sequence of tokens (the "data: " prefix, the payload, the white space). *)
(***************************************************************************)
EXTENDS Integers, Sequences, FiniteSets, TLC

(***************************************************************************)
(* Bounds of the model.                                                    *)
(***************************************************************************)
\* largest configured MAX_RETRY_COUNT explored by Spec
MaxRetryBound == 2
\* longest upstream body (in lines) explored by Spec / SpecAuth
MaxBodyRetry == 1
\* longest upstream body (in lines) explored by SpecBridge
MaxBody == 3
\* longest message list explored by SpecPrompt
MaxMessages == 2

(***************************************************************************)
(* Program constants.                                                      *)
(***************************************************************************)
\* getDurationEnv("RETRY_DELAY", 5000), in milliseconds
RetryDelay == 5000
\* http.StatusOK and the statuses handleCompletion writes
StatusOK == 200
StatusBadRequest == 400
StatusUnauthorized == 401
StatusInternalServerError == 500

(***************************************************************************)
(* strings.HasPrefix, strings.TrimPrefix, strings.TrimSpace on sequences.  *)
(***************************************************************************)
HasPrefix(s, prefix) ==
    /\ Len(s) >= Len(prefix)
    /\ SubSeq(s, 1, Len(prefix)) = prefix

TrimPrefix(s, prefix) ==
    IF HasPrefix(s, prefix) THEN SubSeq(s, Len(prefix) + 1, Len(s)) ELSE s

WhiteSpace == {" ", "\t", "\r", "\n"}

RECURSIVE TrimLeft(_)
TrimLeft(s) ==
    IF s # <<>> /\ Head(s) \in WhiteSpace THEN TrimLeft(Tail(s)) ELSE s

RECURSIVE TrimRight(_)
TrimRight(s) ==
    IF s # <<>> /\ s[Len(s)] \in WhiteSpace
    THEN TrimRight(SubSeq(s, 1, Len(s) - 1))
    ELSE s

\* a plausible slip: only the leading white space is removed
TrimSpaceLeft(s) == TrimLeft(s)

TrimSpace(s) == TrimRight(TrimLeft(s))

(***************************************************************************)
(* The inbound credential check of handleCompletion.  apiKey is the value  *)
(* of APIKEY and authorizationHeader the value of c.GetHeader (empty when  *)
(* the header is absent), both as sequences of characters.  The result is  *)
(* the error text of the 401 written, or "" when the request proceeds.     *)
(***************************************************************************)
Bearer == <<"B", "e", "a", "r", "e", "r", " ">>

\* a plausible slip: the "Bearer " prefix is stripped but not required
checkAPIKeyAnyScheme(apiKey, authorizationHeader) ==
    IF apiKey # <<>>
    THEN IF authorizationHeader = <<>>
         THEN "APIKEY not provided"
         ELSE LET providedToken == TrimPrefix(authorizationHeader, Bearer)
              IN  IF providedToken # apiKey THEN "APIKEY invalid" ELSE ""
    ELSE ""

checkAPIKey(apiKey, authorizationHeader) ==
    IF apiKey # <<>>
    THEN IF authorizationHeader = <<>>
         THEN "APIKEY not provided"
         ELSE IF ~HasPrefix(authorizationHeader, Bearer)
              THEN "APIKEY format error"
              ELSE LET providedToken == TrimPrefix(authorizationHeader, Bearer)
                   IN  IF providedToken # apiKey THEN "APIKEY invalid" ELSE ""
    ELSE ""

(***************************************************************************)
(* Upstream lines.  A line is the sequence of tokens ReadString('\n')      *)
(* returns: an optional "data: " prefix, white space, one payload token    *)
(* and the line end.  The payload tokens are the texts below.              *)
(***************************************************************************)
DataPrefix == <<"data: ">>
DoneMarker == <<"[DONE]">>

\* the JSON values a decoded record can hold under a key
JString(chars) == [t |-> "string", s |-> chars]
JNull == [t |-> "null", s |-> <<>>]
JNumber == [t |-> "number", s |-> <<>>]

\* the decoded form of every payload that is valid JSON: a map from keys to values
JsonTable ==
    [p \in {"{action:success,message:a}", "{action:success,message:b}",
            "{action:success,message:}", "{action:success,message:null}",
            "{action:success,message:7}", "{action:success}",
            "{action:error,message:a}", "{message:a}"} |->
       CASE p = "{action:success,message:a}" ->
                [k \in {"action", "message"} |->
                   IF k = "action" THEN JString(<<"success">>) ELSE JString(<<"a">>)]
         [] p = "{action:success,message:b}" ->
                [k \in {"action", "message"} |->
                   IF k = "action" THEN JString(<<"success">>) ELSE JString(<<"b">>)]
         [] p = "{action:success,message:}" ->
                [k \in {"action", "message"} |->
                   IF k = "action" THEN JString(<<"success">>) ELSE JString(<<>>)]
         [] p = "{action:success,message:null}" ->
                [k \in {"action", "message"} |->
                   IF k = "action" THEN JString(<<"success">>) ELSE JNull]
         [] p = "{action:success,message:7}" ->
                [k \in {"action", "message"} |->
                   IF k = "action" THEN JString(<<"success">>) ELSE JNumber]
         [] p = "{action:success}" ->
                [k \in {"action"} |-> JString(<<"success">>)]
         [] p = "{action:error,message:a}" ->
                [k \in {"action", "message"} |->
                   IF k = "action" THEN JString(<<"error">>) ELSE JString(<<"a">>)]
         [] p = "{message:a}" ->
                [k \in {"message"} |-> JString(<<"a">>)]]

\* json.Unmarshal([]byte(line), &chunk): the decoded map, or an error for any
\* text that is not one JSON object
JsonUnmarshal(line) ==
    IF Len(line) = 1 /\ line[1] \in DOMAIN JsonTable
    THEN [err |-> FALSE, chunk |-> JsonTable[line[1]]]
    ELSE [err |-> TRUE, chunk |-> [k \in {} |-> JNull]]

\* a plausible slip: every record that has an action passes
ActionIsPresent(chunk) == "action" \in DOMAIN chunk

\* chunk["action"] != "success": a missing key is the nil interface
ActionIsSuccess(chunk) ==
    /\ "action" \in DOMAIN chunk
    /\ chunk["action"] = JString(<<"success">>)

\* a plausible slip: an empty string is taken for no message
MessageStringNonEmpty(chunk) ==
    IF /\ "message" \in DOMAIN chunk
       /\ chunk["message"].t = "string"
       /\ chunk["message"].s # <<>>
    THEN [ok |-> TRUE, msgStr |-> chunk["message"].s]
    ELSE [ok |-> FALSE, msgStr |-> <<>>]

\* msg, exists := chunk["message"]; exists && msg != nil; msgStr, ok := msg.(string)
MessageString(chunk) ==
    IF /\ "message" \in DOMAIN chunk
       /\ chunk["message"].t # "null"
       /\ chunk["message"].t = "string"
    THEN [ok |-> TRUE, msgStr |-> chunk["message"].s]
    ELSE [ok |-> FALSE, msgStr |-> <<>>]

(***************************************************************************)
(* One step of the decoding both translators share (main.go 236-297 and    *)
(* 315-337): what a line read without error amounts to.                    *)
(*   "ignored"  not prefixed "data: "                                      *)
(*   "done"     the terminal marker                                        *)
(*   "baddata"  the payload does not decode                                *)
(*   "skipped"  decoded, action is not "success"                           *)
(*   "nomsg"    success, but no string under "message"                     *)
(*   "text"     success with a string message (msgStr)                     *)
(***************************************************************************)
\* a plausible slip: a payload that does not decode ends the loop (break for
\* continue), as the terminal marker does
DecodeLineBreakOnError(line) ==
    IF ~HasPrefix(line, DataPrefix)
    THEN [kind |-> "ignored", msgStr |-> <<>>]
    ELSE LET trimmed == TrimSpace(TrimPrefix(line, DataPrefix))
         IN  IF trimmed = DoneMarker
             THEN [kind |-> "done", msgStr |-> <<>>]
             ELSE LET dec == JsonUnmarshal(trimmed)
                  IN  IF dec.err
                      THEN [kind |-> "done", msgStr |-> <<>>]
                      ELSE IF ~ActionIsSuccess(dec.chunk)
                           THEN [kind |-> "skipped", msgStr |-> <<>>]
                           ELSE LET m == MessageString(dec.chunk)
                                IN  IF m.ok
                                    THEN [kind |-> "text", msgStr |-> m.msgStr]
                                    ELSE [kind |-> "nomsg", msgStr |-> <<>>]

DecodeLine(line) ==
    IF ~HasPrefix(line, DataPrefix)
    THEN [kind |-> "ignored", msgStr |-> <<>>]
    ELSE LET trimmed == TrimSpace(TrimPrefix(line, DataPrefix))
         IN  IF trimmed = DoneMarker
             THEN [kind |-> "done", msgStr |-> <<>>]
             ELSE LET dec == JsonUnmarshal(trimmed)
                  IN  IF dec.err
                      THEN [kind |-> "baddata", msgStr |-> <<>>]
                      ELSE IF ~ActionIsSuccess(dec.chunk)
                           THEN [kind |-> "skipped", msgStr |-> <<>>]
                           ELSE LET m == MessageString(dec.chunk)
                                IN  IF m.ok
                                    THEN [kind |-> "text", msgStr |-> m.msgStr]
                                    ELSE [kind |-> "nomsg", msgStr |-> <<>>]

(***************************************************************************)
(* Token acquisition (requestTokenAndHash).  A fetched text is a sequence  *)
(* of snippets [form, tok]: the places a pattern can match, in the order   *)
(* they occur in the text.                                                 *)
(*   "eq"      vqd="tok"         "colon"   vqd:"tok"                       *)
(*   "spaced"  vqd = "tok"       "json"    "vqd":"tok"                     *)
(*   "sjson"   'vqd':'tok'       "script"  /dist/tok.js                    *)
(* A pattern is the set of forms its regular expression matches.           *)
(***************************************************************************)
Snip(form, tok) == [form |-> form, tok |-> tok]

\* main.go 407 and 412-416
HomePatterns == << {"eq"}, {"eq", "colon"}, {"json"}, {"sjson"} >>
\* main.go 472 and 482
ScriptPatterns == << {"eq", "colon", "spaced"}, {"json"} >>
\* main.go 527-531
FallbackPatterns == << {"eq", "colon", "spaced"}, {"json"}, {"sjson"} >>
\* main.go 493-497
fallbackURLs == << "duck.js", "chat.js", "d.js" >>

\* regexp FindStringSubmatch: the token of the leftmost match, <<>> when none
RECURSIVE FindStringSubmatch(_, _)
FindStringSubmatch(pattern, text) ==
    IF text = <<>> THEN <<>>
    ELSE IF Head(text).form \in pattern THEN <<Head(text).tok>>
    ELSE FindStringSubmatch(pattern, Tail(text))

\* the first pattern of the list that matches decides
RECURSIVE FirstPattern(_, _)
FirstPattern(patterns, text) ==
    IF patterns = <<>> THEN <<>>
    ELSE LET m == FindStringSubmatch(Head(patterns), text)
         IN  IF m # <<>> THEN m ELSE FirstPattern(Tail(patterns), text)

\* jsURLRegex.FindAllStringSubmatch: the script links of the page, in order
RECURSIVE ScriptLinks(_)
ScriptLinks(text) ==
    IF text = <<>> THEN <<>>
    ELSE IF Head(text).form = "script"
         THEN <<Head(text).tok>> \o ScriptLinks(Tail(text))
         ELSE ScriptLinks(Tail(text))

\* A fetch is [ok, text]: ok is FALSE when client.Do or io.ReadAll fails.
\* The loop over urls: the next url is tried when the fetch fails or no
\* pattern matches; the token of the first match ends the loop.
RECURSIVE ScanAssets(_, _, _)
ScanAssets(urls, fetch, patterns) ==
    IF urls = <<>> THEN <<>>
    ELSE LET r == fetch[Head(urls)]
             m == IF r.ok THEN FirstPattern(patterns, r.text) ELSE <<>>
         IN  IF m # <<>> THEN m ELSE ScanAssets(Tail(urls), fetch, patterns)

\* the four methods, in the order of the code, and the requests each makes:
\* the landing page (375-431), the scripts it links (433-489), the fallback
\* assets (491-543), the status probe (545-569)
Methods == << "landing page", "script assets", "fallback assets", "status probe" >>

\* what the function returns; tried is not returned: it is the methods the call
\* went through, in order
TokenOk(tok, n) ==
    [token |-> tok, vqdHash |-> <<>>, err |-> <<>>, tried |-> SubSeq(Methods, 1, n)]
TokenErr(msg, n) ==
    [token |-> <<>>, vqdHash |-> <<>>, err |-> msg, tried |-> SubSeq(Methods, 1, n)]

\* env: home [do, status, read, text], assets and fallback (url -> fetch),
\* status [do, header]
requestTokenAndHash(env) ==
    IF ~env.home.do
    THEN TokenErr(<<"homepage request failed">>, 1)
    ELSE IF env.home.status # StatusOK
    THEN TokenErr(<<"homepage request returned status ", ToString(env.home.status)>>, 1)
    ELSE IF ~env.home.read
    THEN TokenErr(<<"failed to read homepage">>, 1)
    ELSE
    LET bodyStr == env.home.text
        matches == FirstPattern(HomePatterns, bodyStr)
        jsToken == ScanAssets(ScriptLinks(bodyStr), env.assets, ScriptPatterns)
        fbToken == ScanAssets(fallbackURLs, env.fallback, FallbackPatterns)
    IN  IF matches # <<>> THEN TokenOk(matches, 1)
        ELSE IF jsToken # <<>> THEN TokenOk(jsToken, 2)
        ELSE IF fbToken # <<>> THEN TokenOk(fbToken, 3)
        ELSE IF ~env.status.do THEN TokenErr(<<"status request failed">>, 4)
        ELSE IF env.status.header # <<>> THEN TokenOk(env.status.header, 4)
        ELSE TokenErr(<<"could not find vqd token using any method">>, 4)

\* what the upstream host holds for each method at the time of the call: the
\* token the method's own requests and patterns lead to, <<>> when none
Served(env) ==
    LET page == IF env.home.do /\ env.home.status = StatusOK /\ env.home.read
                THEN env.home.text ELSE <<>>
    IN  << FirstPattern(HomePatterns, page),
           ScanAssets(ScriptLinks(page), env.assets, ScriptPatterns),
           ScanAssets(fallbackURLs, env.fallback, FallbackPatterns),
           IF env.status.do THEN env.status.header ELSE <<>> >>

\* the upstream as the token provider can meet it
Fetches == { [ok |-> FALSE, text |-> <<>>],
             [ok |-> TRUE, text |-> <<>>] }

HomePages == { <<>>,
               << Snip("eq", "t1") >>,
               << Snip("json", "t1") >>,
               << Snip("spaced", "t1") >>,
               << Snip("script", "s1") >>,
               << Snip("script", "s1"), Snip("script", "s2") >> }

Homes ==
    { [do |-> FALSE, status |-> 0, read |-> FALSE, text |-> <<>>],
      [do |-> TRUE, status |-> 503, read |-> FALSE, text |-> <<>>],
      [do |-> TRUE, status |-> StatusOK, read |-> FALSE, text |-> <<>>] }
    \cup { [do |-> TRUE, status |-> StatusOK, read |-> TRUE, text |-> p] :
             p \in HomePages }

AssetFetches == Fetches \cup { [ok |-> TRUE, text |-> << Snip("spaced", "t2") >>] }
FallbackFetches == Fetches \cup { [ok |-> TRUE, text |-> << Snip("sjson", "t3") >>] }
StatusProbes == { [do |-> FALSE, header |-> <<>>],
                  [do |-> TRUE, header |-> <<>>],
                  [do |-> TRUE, header |-> <<"t4">>] }

FallbackMaps ==
    [ {"duck.js", "chat.js", "d.js"} -> FallbackFetches ]

AssetMaps ==
    [ {"s1", "s2"} -> AssetFetches ]

TokenEnvs ==
    { [home |-> h, assets |-> a, fallback |-> f, status |-> st] :
        h \in Homes, a \in AssetMaps, f \in FallbackMaps, st \in StatusProbes }

\* every result requestTokenAndHash can return to handleCompletion, with what
\* the upstream host held at that call
TokenResults ==
    { [result |-> requestTokenAndHash(env), served |-> Served(env)] :
        env \in TokenEnvs }

(***************************************************************************)
(* The response writer (gin's c.Writer over net/http).                     *)
(*   status   0 until the header is written, then the status sent          *)
(*   body     the objects written, in order                                *)
(*   flushed  how many of them have been flushed to the caller             *)
(*   broken   the caller is gone: every Write fails from then on           *)
(***************************************************************************)
NewWriter == [status |-> 0, body |-> <<>>, flushed |-> 0, broken |-> FALSE]

\* gin responseWriter.WriteHeader: an override after the header went out is refused
WriteHeader(w, code) ==
    IF w.status = 0 THEN [w EXCEPT !.status = code] ELSE w

\* a plausible slip: a failed write is forgotten, later writes can succeed
WriteForgetsFailure(w, item, disconnect) ==
    LET h == WriteHeader(w, StatusOK)
    IN  IF disconnect
        THEN [err |-> TRUE, w |-> [h EXCEPT !.broken = TRUE]]
        ELSE [err |-> FALSE, w |-> [h EXCEPT !.body = Append(h.body, item)]]

\* c.Writer.Write(bytes): the header goes out with 200 if not yet written;
\* disconnect says whether the caller is found gone at this write
Write(w, item, disconnect) ==
    LET h == WriteHeader(w, StatusOK)
    IN  IF w.broken \/ disconnect
        THEN [err |-> TRUE, w |-> [h EXCEPT !.broken = TRUE]]
        ELSE [err |-> FALSE, w |-> [h EXCEPT !.body = Append(h.body, item)]]

\* flusher.Flush()
Flush(w) == [w EXCEPT !.flushed = Len(w.body)]

\* c.JSON(code, obj): the status, then the body; a failing write is not
\* reported to the handler
JSON(w, code, obj) ==
    LET h == WriteHeader(w, code)
    IN  IF h.broken THEN h ELSE [h EXCEPT !.body = Append(h.body, obj)]

\* gin Recovery after a panic in the handler: c.AbortWithStatus(500)
AbortWithStatus(w, code) == WriteHeader(w, code)

\* the handler returned: the header goes out with 200 if not yet written, and
\* net/http flushes what is buffered
FinishRequest(w) ==
    LET h == WriteHeader(w, StatusOK)
    IN  IF h.broken THEN h ELSE Flush(h)

(***************************************************************************)
(* The objects written to the caller.  part names the key that carries the *)
(* content: "delta", "message", "error" or "none" (no such key).           *)
(***************************************************************************)
DeltaChunk(msgStr) ==
    [object |-> "chat.completion.chunk", part |-> "delta",
     content |-> msgStr, finish_reason |-> "null"]

StopChunk ==
    [object |-> "chat.completion.chunk", part |-> "none",
     content |-> <<>>, finish_reason |-> "stop"]

Completion(text) ==
    [object |-> "chat.completion", part |-> "message",
     content |-> text, finish_reason |-> "none"]

ErrorBody(msg) ==
    [object |-> "error", part |-> "error",
     content |-> msg, finish_reason |-> "none"]

(***************************************************************************)
(* Errors are their message texts, as sequences of pieces; nil is <<>>.    *)
(***************************************************************************)
NilError == <<>>
TokenError(err) == <<"cannot get token: ">> \o err
TransportError(err) == <<"request failed: ">> \o err
StatusError(code, bodyText) ==
    <<"non-200 response: ", ToString(code), ", body: ">> \o bodyText
WriteError(err) == <<"write response failed: ">> \o err
ReadError(err) == <<"read response failed: ">> \o err

(***************************************************************************)
(* The upstream chat response: a status, and for a 200 the body as the     *)
(* lines ReadString returns, an unterminated rest (<<>> when the body ends *)
(* with a line end) and how reading ends: "EOF", or "ERR" for a failure    *)
(* of the connection after the lines.                                      *)
(***************************************************************************)
LineA == <<"data: ", "{action:success,message:a}", "\n">>
LineB == <<"data: ", "{action:success,message:b}", "\r", "\n">>
LineDone == <<"data: ", "[DONE]", "\n">>
LineBad == <<"data: ", "{action:succ", "\n">>
LineOther == <<"data: ", "{action:error,message:a}", "\n">>
LineNoPrefix == <<"{action:success,message:a}", "\n">>
LineEmpty == <<"data: ", "{action:success,message:}", "\n">>
LineNull == <<"data: ", "{action:success,message:null}", "\n">>
LineAbsent == <<"data: ", "{action:success}", "\n">>
LineNumber == <<"data: ", "{action:success,message:7}", "\n">>

Lines == {LineA, LineB, LineDone, LineBad, LineOther, LineNoPrefix,
          LineEmpty, LineNull}

\* the lines the retry loop is explored with
RetryLines == {LineA, LineDone}

\* the success records, by what they hold under "message"
RecordLines == {LineA, LineEmpty, LineNull, LineAbsent, LineNumber}

\* how a body ends once its lines are read: an unterminated last record (<<>>
\* when the body ends with a line end) and io.EOF, or a read error
Rests == { <<>>, <<"data: ", "[DONE]">>, <<"data: ", "{action:success,message:a}">> }

Endings ==
    { [rest |-> r, end |-> "EOF"] : r \in Rests }
    \cup { [rest |-> <<>>, end |-> "ERR"] }

SeqsUpTo(S, n) == UNION { [1..k -> S] : k \in 0..n }

\* rest and end are filled in when the reader gets there
Bodies(alphabet, maxLen) ==
    { [status |-> StatusOK, lines |-> ls, rest |-> <<>>, end |-> ""] :
        ls \in SeqsUpTo(alphabet, maxLen) }

\* no response is held: status 0
NoBody == [status |-> 0, lines |-> <<>>, rest |-> <<>>, end |-> ""]

\* the statuses the upstream answers with
Statuses == {StatusOK, 204, 500}

\* a read that never returns: past the lines the upstream neither sends more
\* nor ends the body, and no timeout ends the wait
EndingsAtNeverReturns(body, pos) ==
    IF pos <= Len(body.lines) THEN { [rest |-> <<>>, end |-> ""] } ELSE {}

\* what the upstream can still deliver when the reader stands at pos
EndingsAt(body, pos) ==
    IF pos <= Len(body.lines) THEN { [rest |-> <<>>, end |-> ""] } ELSE Endings

\* reader.ReadString('\n') at position pos: a whole line and no error, or what
\* is left of the body with io.EOF, or a read error
ReadString(body, pos, ending) ==
    IF pos <= Len(body.lines)
    THEN [line |-> body.lines[pos], err |-> "nil"]
    ELSE IF ending.end = "ERR"
         THEN [line |-> <<>>, err |-> "ERR"]
         ELSE [line |-> ending.rest, err |-> "EOF"]

\* the body as the reader has found it to end
Ended(body, ending) == [body EXCEPT !.rest = ending.rest, !.end = ending.end]

(***************************************************************************)
(***************************************************************************)
(* main.go 609-622: convertModel.  A model name is a sequence of           *)
(* characters; the upstream identifiers are the literals of the switch.    *)
(***************************************************************************)
UpperCase == <<"A", "B", "C", "D", "E", "F", "G", "H", "I", "J", "K", "L", "M">>
             \o <<"N", "O", "P", "Q", "R", "S", "T", "U", "V", "W", "X", "Y", "Z">>
LowerCase == <<"a", "b", "c", "d", "e", "f", "g", "h", "i", "j", "k", "l", "m">>
             \o <<"n", "o", "p", "q", "r", "s", "t", "u", "v", "w", "x", "y", "z">>
\* strings.ToLower, on the letters A-Z
ToLowerChar(c) ==
    IF \E i \in 1..Len(UpperCase) : UpperCase[i] = c
    THEN LowerCase[CHOOSE i \in 1..Len(UpperCase) : UpperCase[i] = c]
    ELSE c

ToLower(s) == [i \in 1..Len(s) |-> ToLowerChar(s[i])]

\* the names of the switch, and the default's own name
Claude3Haiku == <<"c", "l", "a", "u", "d", "e", "-", "3", "-", "h", "a", "i", "k", "u">>
Llama33 == <<"l", "l", "a", "m", "a", "-", "3", ".", "3", "-", "7", "0", "b">>
MistralSmall == <<"m", "i", "s", "t", "r", "a", "l", "-", "s", "m", "a", "l", "l">>
O3Mini == <<"o", "3", "-", "m", "i", "n", "i">>
Gpt4oMini == <<"g", "p", "t", "-", "4", "o", "-", "m", "i", "n", "i">>

\* a plausible slip: the name is compared as given
convertModelCaseSensitive(inputModel) ==
    CASE inputModel = Claude3Haiku -> "claude-3-haiku-20240307"
      [] inputModel = Llama33 -> "meta-llama/Llama-3.3-70B-Instruct-Turbo"
      [] inputModel = MistralSmall -> "mistralai/Mistral-Small-24B-Instruct-2501"
      [] inputModel = O3Mini -> "o3-mini"
      [] OTHER -> "gpt-4o-mini"

convertModel(inputModel) ==
    LET lower == ToLower(inputModel)
    IN  CASE lower = Claude3Haiku -> "claude-3-haiku-20240307"
          [] lower = Llama33 -> "meta-llama/Llama-3.3-70B-Instruct-Turbo"
          [] lower = MistralSmall -> "mistralai/Mistral-Small-24B-Instruct-2501"
          [] lower = O3Mini -> "o3-mini"
          [] OTHER -> "gpt-4o-mini"

\* the model names requests are explored with: the names of the switch in
\* several letter cases, and names the switch does not know
ModelNames ==
    { Claude3Haiku, Llama33, MistralSmall, O3Mini, Gpt4oMini,
      <<>>,
      <<"g", "p", "t", "-", "4">>,
      <<"c", "l", "a", "u", "d", "e", "-", "3", "-", "h", "a", "i", "k", "u", " ">>,
      <<" ", "o", "3", "-", "m", "i", "n", "i">>,
      <<"o", "3", "-", "m", "i", "n", "i", "-", "h", "i", "g", "h">>,
      <<"o", "3", "_", "m", "i", "n", "i">>,
      <<"c", "l", "a", "u", "d", "e", "-", "3", "-", "h", "a", "i", "k", "u", "-", "2", "0", "2", "4", "0", "3", "0", "7">>,
      <<"G", "P", "T", "-", "4", "O", "-", "M", "I", "N", "I">>,
      <<"l", "l", "a", "m", "a", "-", "3", ".", "3", "-", "7", "0", "B">>,
      <<"M", "i", "s", "t", "r", "a", "l", "-", "S", "m", "a", "l", "l">>,
      <<"C", "L", "A", "U", "D", "E", "-", "3", "-", "H", "A", "I", "K", "U">>,
      <<"C", "l", "a", "u", "d", "e", "-", "3", "-", "H", "a", "i", "k", "u">>,
      <<"O", "3", "-", "M", "I", "N", "I">>,
      <<"o", "3", "-", "M", "i", "n", "i">>,
      <<"L", "L", "A", "M", "A", "-", "3", ".", "3", "-", "7", "0", "B">>,
      <<"M", "I", "S", "T", "R", "A", "L", "-", "S", "M", "A", "L", "L">>,
      <<"m", "i", "s", "t", "r", "a", "l", "-", "s", "m", "a", "l", "L">> }

(***************************************************************************)
(* main.go 572-607: prepareMessages.  A role and a text are sequences of   *)
(* pieces; a content is the interface{} the JSON decoder leaves: a string, *)
(* an array of items, or another value (nil, a number).                    *)
(***************************************************************************)
Message(role, content) == [Role |-> role, Content |-> content]

ContentString(s) == [t |-> "string", s |-> s, items |-> <<>>, n |-> 0]
ContentArray(items) == [t |-> "array", s |-> <<>>, items |-> items, n |-> 0]
ContentNil == [t |-> "nil", s |-> <<>>, items |-> <<>>, n |-> 0]
ContentNumber(n) == [t |-> "number", s |-> <<>>, items |-> <<>>, n |-> n]

\* the items of an array: an object with a "text" key (a string or not), an
\* object without it, a value that is no object
TextItem(s) == [isMap |-> TRUE, hasText |-> TRUE, text |-> JString(s)]
NumberTextItem == [isMap |-> TRUE, hasText |-> TRUE, text |-> JNumber]
ImageItem == [isMap |-> TRUE, hasText |-> FALSE, text |-> JNull]
BareItem(s) == [isMap |-> FALSE, hasText |-> FALSE, text |-> JString(s)]

\* 592-596: itemMap, ok := item.(map[string]interface{}); text, exists :=
\* itemMap["text"].(string)
ItemText(item) ==
    IF item.isMap /\ item.hasText /\ item.text.t = "string"
    THEN item.text.s
    ELSE <<>>

RECURSIVE ItemsText(_)
ItemsText(items) ==
    IF items = <<>> THEN <<>>
    ELSE ItemText(Head(items)) \o ItemsText(Tail(items))

\* fmt.Sprintf("%v", msg.Content) for the values that are neither
Sprintv(v) ==
    IF v.t = "nil" THEN << "<nil>" >> ELSE << ToString(v.n) >>

\* 586-600: the switch on the type of the content
contentStr(content) ==
    CASE content.t = "string" -> content.s
      [] content.t = "array" -> ItemsText(content.items)
      [] OTHER -> Sprintv(content)

\* a plausible slip: the role is written as given
RoleAsGiven(role) == role

\* 580-583: 'system' becomes 'user'
RoleWritten(role) == IF role = <<"system">> THEN <<"user">> ELSE role

\* 603: fmt.Sprintf("%s:%s;\r\n", role, contentStr)
RECURSIVE prepareMessages(_)
prepareMessages(messages) ==
    IF messages = <<>> THEN <<>>
    ELSE LET msg == Head(messages)
         IN  RoleWritten(msg.Role) \o <<":">> \o contentStr(msg.Content)
               \o <<";", "\r\n">> \o prepareMessages(Tail(messages))

\* the messages requests are explored with
MsgSystem == Message(<<"system">>, ContentString(<<"be brief">>))
MsgUser == Message(<<"user">>, ContentString(<<"hi">>))
MsgAssistant ==
    Message(<<"assistant">>,
            ContentArray(<< TextItem(<<"p">>), ImageItem, TextItem(<<"q">>),
                            NumberTextItem, BareItem(<<"r">>) >>))
MsgUpperSystem == Message(<<"System">>, ContentString(<<>>))
MsgNoRole == Message(<<>>, ContentNil)
MsgTool == Message(<<"tool">>, ContentNumber(7))
\* a content that itself holds the end of a line
MsgTwoLines ==
    Message(<<"user">>, ContentString(<<"a", ";", "\r\n", "system", ":", "b">>))
MsgSystemParts == Message(<<"system">>, ContentArray(<<>>))

Messages == { MsgSystem, MsgUser, MsgAssistant, MsgUpperSystem, MsgNoRole,
              MsgTool, MsgTwoLines, MsgSystemParts }

(* The state of one request.                                               *)
(***************************************************************************)
VARIABLES
    build,         \* which of the two sources of the program runs
    config,        \* [MaxRetryCount, APIKEY]: read at process start / per request
    request,       \* the inbound request: [Authorization, validJSON, Stream,
                   \* Model, Messages]
    model,         \* handleCompletion's model ("" until the body is bound)
    content,       \* handleCompletion's content (likewise)
    pc,            \* where handleCompletion stands
    retryCount,    \* handleCompletion's retryCount
    lastError,     \* handleCompletion's lastError (NilError when unset)
    cred,          \* [token, vqdHash] of the attempt, between acquisition and use
    upstreamReq,   \* the headers of the upstream request built, until it is sent
    resp,          \* the upstream response being read: its status and body
                   \* (NoBody when none)
    pos,           \* the reader's position in resp (next line to read)
    fullResponse,  \* handleNonStreamResponse's accumulator
    w,             \* the response writer
    outcome,       \* how the request ended ("" while running)
    attempts,      \* history: per attempt made, [kind, err] ("ok" when it succeeded)
    acquisition,   \* history: the last token acquisition, [tried, served], until
                   \* the upstream request that uses its token is sent
    delays         \* history: the durations slept, in order

vars == << build, config, request, model, content, pc, retryCount, lastError, cred,
           upstreamReq, resp, pos, fullResponse, w, outcome, attempts, acquisition,
           delays >>

NoCred == [token |-> <<>>, vqdHash |-> <<>>]
NoAcquisition == [tried |-> <<>>, served |-> <<>>]
NoRequest == <<>>

\* the two sources of the program: main.go, and the variant of it with the
\* hard-coded credential
MainBuild == "main.go"
HardcodedBuild == "part_001"

\* handleCompletion's local state when the request arrives
StartBuild(b, cfg, req) ==
    /\ build = b
    /\ config = cfg
    /\ request = req
    /\ model = ""
    /\ content = <<>>
    /\ pc = "auth"
    /\ retryCount = 0
    /\ lastError = NilError
    /\ cred = NoCred
    /\ upstreamReq = NoRequest
    /\ resp = NoBody
    /\ pos = 1
    /\ fullResponse = <<>>
    /\ w = NewWriter
    /\ outcome = ""
    /\ attempts = <<>>
    /\ acquisition = NoAcquisition
    /\ delays = <<>>

Start(cfg, req) == StartBuild(MainBuild, cfg, req)

\* the handler returns: nothing of it runs any more
Return(how, writer) ==
    /\ pc' = "done"
    /\ outcome' = how
    /\ w' = FinishRequest(writer)

(***************************************************************************)
(* main.go 95-112: the credential check.                                   *)
(***************************************************************************)
Authenticate ==
    /\ pc = "auth"
    /\ LET refusal == checkAPIKey(config.APIKEY, request.Authorization)
       IN  IF refusal # ""
           THEN Return("401", JSON(w, StatusUnauthorized, ErrorBody(<<refusal>>)))
           ELSE /\ pc' = "bind"
                /\ UNCHANGED << outcome, w >>
    /\ UNCHANGED << acquisition, build, upstreamReq, config, request, model, content, retryCount,
                    lastError, cred, resp, pos, fullResponse, attempts, delays >>

(***************************************************************************)
(* main.go 114-131: c.ShouldBindJSON, then model, content and the loop's   *)
(* variables.                                                              *)
(***************************************************************************)
\* a plausible slip: the return after the 400 is missing
BindRequestNoReturn ==
    /\ pc = "bind"
    /\ pc' = "loop"
    /\ w' = IF ~request.validJSON
            THEN JSON(w, StatusBadRequest, ErrorBody(<<"invalid JSON">>))
            ELSE w
    /\ model' = convertModel(request.Model)
    /\ content' = prepareMessages(request.Messages)
    /\ UNCHANGED << acquisition, build, upstreamReq, config, request, retryCount, lastError, cred,
                    resp, pos, fullResponse, outcome, attempts, delays >>

BindRequest ==
    /\ pc = "bind"
    /\ IF ~request.validJSON
       THEN /\ Return("400", JSON(w, StatusBadRequest, ErrorBody(<<"invalid JSON">>)))
            /\ UNCHANGED << model, content >>
       ELSE /\ model' = convertModel(request.Model)
            /\ content' = prepareMessages(request.Messages)
            /\ pc' = "loop"
            /\ UNCHANGED << outcome, w >>
    /\ UNCHANGED << acquisition, build, upstreamReq, config, request, retryCount, lastError, cred,
                    resp, pos, fullResponse, attempts, delays >>

(***************************************************************************)
(* main.go 134-138: the loop condition and the delay before a retry.       *)
(***************************************************************************)
\* a plausible slip: one attempt too many
LoopConditionOneMore(count, maxRetryCount) == count <= maxRetryCount + 1

LoopCondition(count, maxRetryCount) == count <= maxRetryCount

\* a plausible slip: the delay also precedes the first attempt
SleepBeforeEveryAttempt(count) == count >= 0

SleepBeforeAttempt(count) == count > 0

BeginAttempt ==
    /\ pc = "loop"
    /\ LoopCondition(retryCount, config.MaxRetryCount)
    /\ delays' = IF SleepBeforeAttempt(retryCount)
                 THEN Append(delays, RetryDelay)
                 ELSE delays
    /\ pc' = "token"
    /\ UNCHANGED << acquisition, build, upstreamReq, config, request, model, content, retryCount,
                    lastError, cred, resp, pos, fullResponse, w, outcome, attempts >>

(***************************************************************************)
(* main.go 205-206: the loop is left without a successful attempt.  With   *)
(* lastError unset, lastError.Error() panics and gin's Recovery answers.   *)
(***************************************************************************)
Exhausted ==
    /\ pc = "loop"
    /\ ~LoopCondition(retryCount, config.MaxRetryCount)
    /\ IF lastError = NilError
       THEN Return("panic", AbortWithStatus(w, StatusInternalServerError))
       ELSE Return("exhausted",
                   JSON(w, StatusInternalServerError, ErrorBody(lastError)))
    /\ UNCHANGED << acquisition, build, upstreamReq, config, request, model, content, retryCount,
                    lastError, cred, resp, pos, fullResponse, attempts, delays >>

(***************************************************************************)
(* A failed attempt: lastError = err; retryCount++; continue.              *)
(***************************************************************************)
\* a plausible slip: only the first failure is kept
RecordFirstError(previous, err) == IF previous = NilError THEN err ELSE previous

RecordError(previous, err) == err

FailAttempt(kind, err) ==
    /\ lastError' = RecordError(lastError, err)
    /\ retryCount' = retryCount + 1
    /\ attempts' = Append(attempts, [kind |-> kind, err |-> err])
    /\ pc' = "loop"
    /\ cred' = NoCred
    /\ resp' = NoBody
    /\ pos' = 1

\* return: the attempt succeeded and the handler is done
SucceedAttempt(writer) ==
    /\ attempts' = Append(attempts, [kind |-> "ok", err |-> NilError])
    /\ Return("ok", writer)
    /\ UNCHANGED << retryCount, lastError >>

(***************************************************************************)
(* part_001 380-389: requestTokenAndHash of the variant returns a fixed     *)
(* token and a fixed hash, and never fails.                                 *)
(***************************************************************************)
HardcodedToken == <<"4-254683533747813303106479798401426525337">>
HardcodedHash ==
    <<"eyJzZXJ2ZXJfaGFzaGVzIjpbIlhjeXJBK0duWGVCZHRPVlJFNGxnOUl2djZHRFFuWmpmdWNhMGlSVUFwYm89IiwiSWRnOVVoVDZxUHEvenR5NWIwNWJuQ09wVVJZR1ZaSXk1bW00UnBaeHpiZz0iXSwiY2xpZW50X2hhc2hlcyI6WyJrZFFzVzJHY3NXR29XUW0zN01QOEp0MHJvMko5d1BkSVhodHhicWRjSGdZPSIsIm1rUzJRZ0VuempqM1NZRjMwUFBFNm0wdUkwczU5RmtqM3IrQ3VYWjFVWGM9Il0sInNpZ25hbHMiOnt9fQ==">>

requestTokenAndHashHardcoded ==
    [token |-> HardcodedToken, vqdHash |-> HardcodedHash, err |-> <<>>,
     tried |-> <<>>]

\* what a call of requestTokenAndHash can return, per source
TokenResultsOf(b) ==
    IF b = HardcodedBuild
    THEN { [result |-> requestTokenAndHashHardcoded, served |-> <<>>] }
    ELSE TokenResults

(***************************************************************************)
(* main.go 140-145: token acquisition.  cred is what the call returned.    *)
(***************************************************************************)
AcquireToken ==
    /\ pc = "token"
    /\ \E call \in TokenResultsOf(build) :
         LET r == call.result
         IN  /\ acquisition' = [tried |-> r.tried, served |-> call.served]
             /\ IF r.err # NilError
                THEN /\ FailAttempt("token", TokenError(r.err))
                     /\ UNCHANGED << w, outcome >>
                ELSE /\ cred' = [token |-> r.token, vqdHash |-> r.vqdHash]
                     /\ pc' = "send"
                     /\ UNCHANGED << retryCount, lastError, attempts, resp, pos,
                                     w, outcome >>
    /\ UNCHANGED << build, upstreamReq, config, request, model, content,
                    fullResponse, delays >>

(***************************************************************************)
(* main.go 147-177 (part_001 148-186): the upstream request is built.      *)
(* json.Marshal of a map of strings and http.NewRequest with a constant    *)
(* URL cannot fail (157-167).  Of the headers the model keeps the two      *)
(* that carry the credential.                                              *)
(***************************************************************************)
\* part_001 152: the token of the second curl example
MultiTurnToken == <<"4-212890776487765339064984812855765849703">>

\* part_001 150-154: with a conversation history the token is replaced;
\* main.go has no such step
TokenUsed(b, messages, token) ==
    IF b = HardcodedBuild /\ Len(messages) > 1 THEN MultiTurnToken ELSE token

\* a plausible slip: the hash header is set whatever the hash
UpstreamHeadersAlwaysHash(token, vqdHash) ==
    [h \in {"x-vqd-4", "x-vqd-hash-1"} |->
        IF h = "x-vqd-4" THEN token ELSE vqdHash]

\* main.go 172-175: x-vqd-4 always, x-vqd-hash-1 when vqdHash != ""
UpstreamHeaders(token, vqdHash) ==
    [h \in (IF vqdHash # <<>> THEN {"x-vqd-4", "x-vqd-hash-1"} ELSE {"x-vqd-4"}) |->
        IF h = "x-vqd-4" THEN token ELSE vqdHash]

BuildRequest ==
    /\ pc = "send"
    /\ upstreamReq' = UpstreamHeaders(TokenUsed(build, request.Messages, cred.token),
                                      cred.vqdHash)
    /\ cred' = NoCred
    /\ pc' = "do"
    /\ UNCHANGED << acquisition, build, config, request, model, content, retryCount,
                    lastError, resp, pos, fullResponse, w, outcome, attempts, delays >>

(***************************************************************************)
(* main.go 179-200: client.Do, the status check and the entry into the     *)
(* translator.                                                             *)
(***************************************************************************)
\* a plausible slip: every 2xx status is taken
StatusAccepted2xx(code) == code \in 200..299

\* 188: resp.StatusCode != http.StatusOK
StatusAccepted(code) == code = StatusOK

SendUpstream(alphabet, maxLen) ==
    /\ pc = "do"
    /\ \/ /\ FailAttempt("transport", TransportError(<<"timeout">>))
          /\ UNCHANGED << fullResponse >>
       \/ \E code \in Statuses :
            IF ~StatusAccepted(code)
            THEN /\ FailAttempt("status", StatusError(code, <<"busy">>))
                 /\ UNCHANGED << fullResponse >>
            ELSE \E body \in Bodies(alphabet, maxLen) :
                   /\ resp' = [body EXCEPT !.status = code]
                   /\ pos' = 1
                   /\ fullResponse' = <<>>
                   /\ cred' = NoCred
                   /\ pc' = IF request.Stream THEN "stream" ELSE "nonstream"
                   /\ UNCHANGED << retryCount, lastError, attempts >>
    /\ acquisition' = NoAcquisition
    /\ upstreamReq' = NoRequest
    /\ UNCHANGED << build, config, request, model, content, w, outcome, delays >>

(***************************************************************************)
(* main.go 216-301: handleStreamResponse, one ReadString and what follows  *)
(* it per step.  gin's writer always is an http.Flusher (221-224).         *)
(***************************************************************************)
\* a plausible slip: the chunk is written and left in the buffer
WriteChunkUnflushed(writer, chunk, disconnect) == Write(writer, chunk, disconnect)

\* 253-258 and 289-295: the chunk is written, then flushed
WriteChunk(writer, chunk, disconnect) ==
    LET r == Write(writer, chunk, disconnect)
    IN  IF r.err THEN r ELSE [err |-> FALSE, w |-> Flush(r.w)]

\* 229-234: any read error, io.EOF included, ends the loop without an error
StreamReadFails(err) == err # "nil"

\* a plausible slip: a terminating chunk is made up when the loop is left
AfterStreamLoopWithStop(writer) == WriteChunk(writer, StopChunk, FALSE).w

\* 299-300: once the loop is left nothing more is written; return nil
AfterStreamLoop(writer) == writer

StreamStep ==
    /\ pc = "stream"
    /\ \E ending \in EndingsAt(resp, pos) :
       LET r == ReadString(resp, pos, ending)
           d == DecodeLine(r.line)
       IN  IF StreamReadFails(r.err)
           THEN /\ SucceedAttempt(AfterStreamLoop(w))
                /\ resp' = Ended(resp, ending)
                /\ UNCHANGED << cred, pos >>
           ELSE IF d.kind \in {"done", "text"}
           THEN \E disconnect \in BOOLEAN :
                  LET chunk == IF d.kind = "done" THEN StopChunk
                               ELSE DeltaChunk(d.msgStr)
                      wr == WriteChunk(w, chunk, disconnect)
                  IN  IF wr.err
                      THEN /\ FailAttempt("response", WriteError(<<"broken pipe">>))
                           /\ w' = wr.w
                           /\ UNCHANGED outcome
                      ELSE IF d.kind = "done"
                      THEN /\ SucceedAttempt(AfterStreamLoop(wr.w))
                           /\ UNCHANGED << cred, resp, pos >>
                      ELSE /\ w' = wr.w
                           /\ pos' = pos + 1
                           /\ UNCHANGED << retryCount, lastError, attempts,
                                           cred, resp, pc, outcome >>
           ELSE /\ pos' = pos + 1
                /\ UNCHANGED << retryCount, lastError, attempts, cred,
                                resp, pc, outcome, w >>
    /\ UNCHANGED << acquisition, build, upstreamReq, config, request, model, content, fullResponse, delays >>

(***************************************************************************)
(* main.go 303-364: handleNonStreamResponse, one ReadString and what       *)
(* follows it per step; leaving the loop writes the aggregate.             *)
(***************************************************************************)
\* 309-313: io.EOF ends the loop, any other read error fails the attempt
NonStreamReadEnds(err) == err = "EOF"

\* a plausible slip: the fragment replaces the accumulated text
AccumulateLast(full, msgStr) == msgStr

\* 335: fullResponse.WriteString(msgStr)
Accumulate(full, msgStr) == full \o msgStr

NonStreamStep ==
    /\ pc = "nonstream"
    /\ \E ending \in EndingsAt(resp, pos) :
       LET r == ReadString(resp, pos, ending)
           d == DecodeLine(r.line)
       IN  IF NonStreamReadEnds(r.err)
           THEN /\ SucceedAttempt(JSON(w, StatusOK, Completion(fullResponse)))
                /\ resp' = Ended(resp, ending)
                /\ UNCHANGED << cred, pos, fullResponse >>
           ELSE IF r.err # "nil"
           THEN /\ FailAttempt("response", ReadError(<<"connection reset">>))
                /\ UNCHANGED << w, outcome, fullResponse >>
           ELSE IF d.kind = "done"
           THEN /\ SucceedAttempt(JSON(w, StatusOK, Completion(fullResponse)))
                /\ UNCHANGED << cred, resp, pos, fullResponse >>
           ELSE /\ fullResponse' = IF d.kind = "text"
                                   THEN Accumulate(fullResponse, d.msgStr)
                                   ELSE fullResponse
                /\ pos' = pos + 1
                /\ UNCHANGED << retryCount, lastError, attempts, cred,
                                resp, pc, outcome, w >>
    /\ UNCHANGED << acquisition, build, upstreamReq, config, request, model, content, delays >>

(***************************************************************************)
(* The configurations and requests explored, and the specifications.       *)
(***************************************************************************)
Key == <<"k">>

\* MAX_RETRY_COUNT as getIntEnv reads it: any integer, negative ones included
RetryCounts == -2 .. MaxRetryBound

Headers ==
    { <<>>,                              \* no Authorization header
      Bearer \o Key,                     \* the configured key
      Bearer \o <<"x">>,                 \* another key
      Bearer \o Key \o <<"x">>,          \* the key and more
      Bearer,                            \* the prefix alone
      Key,                               \* the key without the prefix
      <<"b", "e", "a", "r", "e", "r", " ">> \o Key,
      <<"B", "a", "s", "i", "c", " ">> \o Key }

Config(maxRetryCount, apiKey) ==
    [MaxRetryCount |-> maxRetryCount, APIKEY |-> apiKey]

ChatRequest(authorization, validJSON, stream, modelName, messages) ==
    [Authorization |-> authorization, validJSON |-> validJSON, Stream |-> stream,
     Model |-> modelName, Messages |-> messages]

\* a request for the default model with one user message
Request(authorization, validJSON, stream) ==
    ChatRequest(authorization, validJSON, stream, Gpt4oMini, << MsgUser >>)

\* Spec: the retry loop under every retry count, short upstream bodies
Init ==
    \E m \in RetryCounts, k \in {<<>>, Key}, v \in BOOLEAN, st \in BOOLEAN :
        Start(Config(m, k), Request(<<>>, v, st))

Next ==
    \/ Authenticate
    \/ BindRequest
    \/ BeginAttempt
    \/ Exhausted
    \/ AcquireToken
    \/ BuildRequest
    \/ SendUpstream(RetryLines, MaxBodyRetry)
    \/ StreamStep
    \/ NonStreamStep

Spec == Init /\ [][Next]_vars

\* SpecBridge: the translators under upstream bodies of up to MaxBody lines
InitBridge ==
    \E m \in {0, 1}, k \in {<<>>, Key}, v \in BOOLEAN, st \in BOOLEAN :
        Start(Config(m, k), Request(<<>>, v, st))

NextBridge ==
    \/ Authenticate
    \/ BindRequest
    \/ BeginAttempt
    \/ Exhausted
    \/ AcquireToken
    \/ BuildRequest
    \/ SendUpstream(Lines, MaxBody)
    \/ StreamStep
    \/ NonStreamStep

SpecBridge == InitBridge /\ [][NextBridge]_vars

\* SpecRecords: the translators under bodies of success records of every shape
NextRecords ==
    \/ Authenticate
    \/ BindRequest
    \/ BeginAttempt
    \/ Exhausted
    \/ AcquireToken
    \/ BuildRequest
    \/ SendUpstream(RecordLines, MaxBody)
    \/ StreamStep
    \/ NonStreamStep

SpecRecords == InitBridge /\ [][NextRecords]_vars

\* SpecAuth: every credential case
InitAuth ==
    \E m \in {0, 1}, k \in {<<>>, Key}, h \in Headers, v \in BOOLEAN, st \in BOOLEAN :
        Start(Config(m, k), Request(h, v, st))

SpecAuth == InitAuth /\ [][Next]_vars

\* SpecPrompt: the translation of the request, over message lists of up to
\* MaxMessages messages and over the model names
InitPrompt ==
    \E v \in BOOLEAN, st \in BOOLEAN :
        \/ \E ms \in SeqsUpTo(Messages, MaxMessages) :
              Start(Config(0, <<>>), ChatRequest(<<>>, v, st, Gpt4oMini, ms))
        \/ \E name \in ModelNames :
              Start(Config(0, <<>>), ChatRequest(<<>>, v, st, name, << MsgUser >>))

SpecPrompt == InitPrompt /\ [][Next]_vars

(***************************************************************************)
\* SpecBuilds: both sources of the program, under requests with and without a
\* conversation history
Builds == { MainBuild, HardcodedBuild }

Conversations ==
    { <<>>, << MsgUser >>, << MsgUser, MsgAssistant >>,
      << MsgSystem, MsgUser, MsgAssistant >> }

InitBuilds ==
    \E b \in Builds, m \in {0, 1}, st \in BOOLEAN, ms \in Conversations :
        StartBuild(b, Config(m, <<>>), ChatRequest(<<>>, TRUE, st, Gpt4oMini, ms))

SpecBuilds == InitBuilds /\ [][Next]_vars

\* SpecLive: Spec with the scheduling the program runs under.  The handler's
\* goroutine is always scheduled again, time.Sleep returns, and every outbound
\* HTTP call and every read of a body returns (the clients carry a timeout), so
\* a step that can be taken is taken.
SpecLive == Init /\ [][Next]_vars /\ WF_vars(Next)

(* Properties of the retry loop (checked under Spec).                      *)
(***************************************************************************)
MaxRetry == config.MaxRetryCount

\* the request got past the credential check and the binding of its body
InLoop == pc \notin {"auth", "bind"} /\ outcome \notin {"401", "400"}

\* the attempts made so far, the one in progress included
AttemptsStarted ==
    Len(attempts) + (IF pc \in {"token", "send", "do", "stream", "nonstream"} THEN 1 ELSE 0)

FirstAre(n, kind) ==
    /\ Len(attempts) >= n
    /\ \A i \in 1..n : attempts[i].kind = kind

Sleeps(n) == [i \in 1..n |-> RetryDelay]

Max(a, b) == IF a >= b THEN a ELSE b

\* C1, as claimed: once the first MaxRetryCount attempts have all failed on the
\* upstream status, the request ends with a 500 carrying the message of the last
\* of these failures.
C1_AsClaimed ==
    (pc = "done" /\ MaxRetry >= 1 /\ FirstAre(MaxRetry, "status"))
        => /\ outcome = "exhausted"
           /\ w.status = StatusInternalServerError
           /\ w.body = << ErrorBody(attempts[MaxRetry].err) >>

\* C1, amended: once the first MaxRetryCount+1 attempts (at least one) have all
\* failed on the upstream status, no further attempt is made and the request
\* ends with a 500 whose body carries the message of the last of these failures.
C1_ExhaustedAfterStatusFailures ==
    (MaxRetry >= 0 /\ FirstAre(MaxRetry + 1, "status"))
        => /\ Len(attempts) = MaxRetry + 1
           /\ pc \in {"loop", "done"}
           /\ pc = "loop" => retryCount > MaxRetry
           /\ pc = "done" =>
                /\ outcome = "exhausted"
                /\ w.status = StatusInternalServerError
                /\ w.body = << ErrorBody(attempts[MaxRetry + 1].err) >>
                /\ w.flushed = 1

C1_Witness ==
    /\ pc = "done"
    /\ MaxRetry = 2
    /\ FirstAre(3, "status")
    /\ attempts[1].err # attempts[3].err
    /\ outcome = "exhausted"
    /\ w.body = << ErrorBody(attempts[3].err) >>

\* C2: for every k with 0 <= k < MaxRetryCount, when token acquisition fails in
\* the first k attempts, attempt k+1 is made after exactly k delays of
\* RetryDelay, and when that attempt succeeds the request has ended
\* successfully, with no 500 written, after exactly k+1 attempts and k delays.
C2_TokenRetrySucceeds ==
    \A k \in 0 .. (MaxRetry - 1) :
        (InLoop /\ FirstAre(k, "token")) =>
            /\ Len(attempts) = k =>
                 /\ outcome = ""
                 /\ pc = "loop" => retryCount <= MaxRetry
                 /\ pc # "loop" => delays = Sleeps(k)
            /\ (Len(attempts) > k /\ attempts[k + 1].kind = "ok") =>
                 /\ pc = "done"
                 /\ outcome = "ok"
                 /\ Len(attempts) = k + 1
                 /\ delays = Sleeps(k)
                 /\ w.status # StatusInternalServerError
                 /\ \A i \in 1..Len(w.body) : w.body[i].object # "error"

C2_Witness ==
    /\ MaxRetry = 2
    /\ Len(attempts) = 2
    /\ attempts[1].kind = "token"
    /\ attempts[2].kind = "ok"
    /\ outcome = "ok"
    /\ delays = << RetryDelay >>
    /\ w.body # <<>>

\* C3, as claimed: a request never makes more than MaxRetryCount+1 attempts, and
\* the 500 of the exhausted loop is written only once the counter exceeds
\* MaxRetryCount and every permitted attempt has failed.
C3_AsClaimed ==
    /\ pc = "done" /\ InLoop => Len(attempts) <= MaxRetry + 1
    /\ outcome = "exhausted" =>
         /\ retryCount > MaxRetry
         /\ Len(attempts) = MaxRetry + 1
         /\ \A i \in 1..Len(attempts) : attempts[i].kind # "ok"

\* C3, amended: a request never makes more than MaxRetryCount+1 attempts, and
\* none when MaxRetryCount is negative; the 500 of the exhausted loop is written
\* only once the counter exceeds MaxRetryCount and every permitted attempt has
\* failed.
C3_AttemptsBounded ==
    /\ AttemptsStarted <= Max(0, MaxRetry + 1)
    /\ outcome = "exhausted" =>
         /\ retryCount > MaxRetry
         /\ Len(attempts) = MaxRetry + 1
         /\ \A i \in 1..Len(attempts) : attempts[i].kind # "ok"

C3_Witness ==
    /\ outcome = "exhausted"
    /\ MaxRetry = 2
    /\ retryCount = 3
    /\ Len(attempts) = 3

\* C4: when the loop is exhausted, the error passed to the 500 body is the
\* failure of the final attempt, whatever kinds of failure the attempts met; the
\* body written carries it unless the caller is gone.
C4_LastErrorSurfaced ==
    outcome = "exhausted" =>
        /\ attempts # <<>>
        /\ lastError = attempts[Len(attempts)].err
        /\ ~w.broken =>
             /\ w.body # <<>>
             /\ w.body[Len(w.body)] = ErrorBody(attempts[Len(attempts)].err)

C4_Witness ==
    /\ outcome = "exhausted"
    /\ Len(attempts) = 3
    /\ attempts[1].kind = "token"
    /\ attempts[2].kind = "status"
    /\ attempts[3].kind = "response"
    /\ ~w.broken
    /\ w.body = << ErrorBody(attempts[3].err) >>
(***************************************************************************)
(* Properties of the translators (checked under SpecBridge).  What a body  *)
(* should translate to is stated from the lines themselves, not from the   *)
(* decoding the model performs.                                            *)
(***************************************************************************)
\* the success records that carry a string, and the string each carries
StringLines == {LineA, LineB, LineEmpty}
TextLines == {LineA, LineB}

FragmentOf(line) ==
    CASE line = LineA -> <<"a">>
      [] line = LineB -> <<"b">>
      [] OTHER -> <<>>

HasDone(lines) == \E i \in 1..Len(lines) : lines[i] = LineDone

\* the lines before the first [DONE], all of them when there is none
RECURSIVE BeforeDone(_)
BeforeDone(lines) ==
    IF lines = <<>> \/ Head(lines) = LineDone THEN <<>>
    ELSE <<Head(lines)>> \o BeforeDone(Tail(lines))

RECURSIVE ConcatFragments(_)
ConcatFragments(lines) ==
    IF lines = <<>> THEN <<>>
    ELSE FragmentOf(Head(lines)) \o ConcatFragments(Tail(lines))

RECURSIVE DeltasOf(_)
DeltasOf(lines) ==
    IF lines = <<>> THEN <<>>
    ELSE (IF Head(lines) \in StringLines
          THEN << DeltaChunk(FragmentOf(Head(lines))) >>
          ELSE <<>>) \o DeltasOf(Tail(lines))

ExpectedText(lines) == ConcatFragments(BeforeDone(lines))

ExpectedChunks(lines) ==
    DeltasOf(BeforeDone(lines)) \o (IF HasDone(lines) THEN << StopChunk >> ELSE <<>>)

StopChunksWritten ==
    Cardinality({ i \in 1..Len(w.body) : w.body[i].finish_reason = "stop" })

StreamedOk == request.Stream /\ outcome = "ok"
AggregatedOk == ~request.Stream /\ outcome = "ok"

\* C5, as claimed: every streamed response that completes without error holds
\* exactly one chunk with finish_reason "stop", and it is the last chunk written.
C5_AsClaimed ==
    StreamedOk =>
        /\ StopChunksWritten = 1
        /\ w.body[Len(w.body)].finish_reason = "stop"

\* C5, amended: a streamed response that completes without error after a
\* [DONE] record was read holds exactly one chunk with finish_reason "stop" and
\* no delta content, and it is the last chunk written and flushed; when the
\* body ends before any [DONE] record, no such chunk is written.  No response
\* ever holds two.
C5_StopChunkOnDone ==
    /\ StopChunksWritten <= 1
    /\ StreamedOk =>
         IF HasDone(resp.lines)
         THEN /\ StopChunksWritten = 1
              /\ w.body[Len(w.body)] = StopChunk
              /\ StopChunk.part = "none" /\ StopChunk.content = <<>>
              /\ w.flushed = Len(w.body)
         ELSE StopChunksWritten = 0

C5_Witness ==
    /\ StreamedOk
    /\ resp.lines = << LineA, LineDone, LineB >>
    /\ w.body = << DeltaChunk(<<"a">>), StopChunk >>

\* C6: in streaming mode, along a body of n success records carrying text then
\* [DONE], every record read has its delta chunk written and flushed before the
\* next record is read, in the order read; at the end the caller has exactly
\* these n chunks followed by one stop chunk.
C6_StreamInOrder ==
    /\ ( /\ request.Stream /\ pc = "stream" /\ ~w.broken
         /\ \A i \in 1..(pos - 1) : resp.lines[i] \in TextLines )
       => /\ w.body = [i \in 1..(pos - 1) |-> DeltaChunk(FragmentOf(resp.lines[i]))]
          /\ w.flushed = Len(w.body)
    /\ ( /\ StreamedOk
         /\ resp.lines # <<>>
         /\ resp.lines[Len(resp.lines)] = LineDone
         /\ \A i \in 1..(Len(resp.lines) - 1) : resp.lines[i] \in TextLines )
       => /\ Len(w.body) = Len(resp.lines)
          /\ \A i \in 1..(Len(resp.lines) - 1) :
                w.body[i] = DeltaChunk(FragmentOf(resp.lines[i]))
          /\ w.body[Len(w.body)] = StopChunk
          /\ w.flushed = Len(w.body)

C6_Witness ==
    /\ StreamedOk
    /\ resp.lines = << LineB, LineA, LineDone >>
    /\ w.body = << DeltaChunk(<<"b">>), DeltaChunk(<<"a">>), StopChunk >>
    /\ w.flushed = 3

\* C7: in non-streaming mode a successful attempt has written exactly one
\* chat.completion object, whose content is the in-order concatenation of the
\* fragments of the success records before the first [DONE] or the end of the
\* body; what follows the first [DONE] contributes nothing.
C7_AggregateContent ==
    AggregatedOk =>
        /\ w.body = << Completion(ExpectedText(resp.lines)) >>
        /\ w.status = StatusOK

C7_Witness ==
    /\ AggregatedOk
    /\ resp.lines = << LineA, LineB, LineDone >>
    /\ w.body = << Completion(<<"a", "b">>) >>

C7_WitnessAfterDone ==
    /\ AggregatedOk
    /\ resp.lines = << LineB, LineDone, LineA >>
    /\ w.body = << Completion(<<"b">>) >>

\* C8: in both modes, reading a record that is not prefixed "data: " or whose
\* action is not "success" writes nothing, adds nothing to the aggregate and
\* leaves the loop running at the next record.
C8_SkippedRecords ==
    [][ ( /\ pc \in {"stream", "nonstream"}
          /\ pos <= Len(resp.lines)
          /\ resp.lines[pos] \in {LineNoPrefix, LineOther} )
        => /\ w' = w
           /\ fullResponse' = fullResponse
           /\ pc' = pc
           /\ pos' = pos + 1
           /\ attempts' = attempts ]_vars

C8_Witness ==
    /\ AggregatedOk
    /\ resp.lines = << LineNoPrefix, LineOther, LineA >>
    /\ w.body = << Completion(<<"a">>) >>

\* C9: a data record that does not decode as JSON never ends the attempt: the
\* step that reads it records no failure, writes nothing and leaves the loop at
\* the next record; and a response completed after such a record holds the
\* translation of every valid success record around it.
SawBadLine ==
    \E i \in 1..Len(resp.lines) : i <= pos /\ resp.lines[i] = LineBad

C9_BadRecordSkipped ==
    /\ [][ ( /\ pc \in {"stream", "nonstream"}
             /\ pos <= Len(resp.lines)
             /\ resp.lines[pos] = LineBad )
           => /\ pc' = pc
              /\ pos' = pos + 1
              /\ attempts' = attempts
              /\ retryCount' = retryCount
              /\ lastError' = lastError
              /\ w' = w
              /\ fullResponse' = fullResponse ]_vars
    /\ []( (AggregatedOk /\ SawBadLine)
             => w.body = << Completion(ExpectedText(resp.lines)) >> )
    /\ []( (StreamedOk /\ SawBadLine /\ ~w.broken)
             => w.body = ExpectedChunks(resp.lines) )

C9_Witness ==
    /\ StreamedOk
    /\ resp.lines = << LineBad, LineA, LineDone >>
    /\ w.body = << DeltaChunk(<<"a">>), StopChunk >>

(***************************************************************************)
(* The credential check (checked under SpecAuth).                          *)
(***************************************************************************)
\* C10: a request passes the credential check if and only if no API key is
\* configured or its Authorization header is "Bearer " followed by the key;
\* every other request, with a key configured, is answered 401.
Admitted ==
    \/ config.APIKEY = <<>>
    \/ request.Authorization = Bearer \o config.APIKEY

C10_CredentialCheck ==
    pc # "auth" =>
        /\ Admitted <=> outcome # "401"
        /\ outcome = "401" =>
             /\ pc = "done"
             /\ w.status = StatusUnauthorized
             /\ Len(w.body) = 1 /\ w.body[1].object = "error"
             /\ attempts = <<>>
        /\ outcome # "401" => w.status # StatusUnauthorized

C10_Witness ==
    /\ config.APIKEY = Key
    /\ request.Authorization = Bearer \o Key
    /\ outcome = "ok"
    /\ w.status = StatusOK

(***************************************************************************)
(* Refusals before the retry loop (checked under SpecAuth).                *)
(***************************************************************************)
Refused == w.status \in {StatusUnauthorized, StatusBadRequest}

\* C11: a request answered 401 or 400 is answered at once: the handler has
\* returned with that one error object, and no token acquisition, upstream
\* request, retry or delay has taken place; a request that fails the credential
\* check is answered 401 whatever its body is, and its body is never bound.
C11_RefusedImmediately ==
    /\ Refused =>
         /\ pc = "done"
         /\ outcome = (IF w.status = StatusUnauthorized THEN "401" ELSE "400")
         /\ Len(w.body) = 1 /\ w.body[1].object = "error"
         /\ attempts = <<>>
         /\ delays = <<>>
         /\ retryCount = 0
         /\ cred = NoCred
         /\ resp = NoBody
    /\ pc = "bind" => Admitted
    /\ (pc = "done" /\ ~Admitted) =>
         /\ outcome = "401"
         /\ w.status = StatusUnauthorized
    /\ (pc = "done" /\ Admitted /\ ~request.validJSON) =>
         /\ outcome = "400"
         /\ w.status = StatusBadRequest

C11_Witness ==
    /\ pc = "done"
    /\ ~Admitted
    /\ ~request.validJSON
    /\ outcome = "401"
    /\ w.status = StatusUnauthorized
    /\ attempts = <<>>

(***************************************************************************)
(* The translation of the request (checked under SpecPrompt).  What a      *)
(* message and a model name should translate to is stated from the request *)
(* itself.                                                                 *)
(***************************************************************************)
\* the body was bound: model and content are computed
Bound == pc \notin {"auth", "bind"} /\ outcome \notin {"401", "400"}

\* the text a content stands for: the string itself, the "text" strings of the
\* items of an array in order, the textual form of any other value
TextOf(msg) ==
    CASE msg = MsgSystem -> <<"be brief">>
      [] msg = MsgUser -> <<"hi">>
      [] msg = MsgAssistant -> <<"p", "q">>
      [] msg = MsgUpperSystem -> <<>>
      [] msg = MsgNoRole -> << "<nil>" >>
      [] msg = MsgTool -> <<"7">>
      [] msg = MsgTwoLines -> <<"a", ";", "\r\n", "system", ":", "b">>
      [] msg = MsgSystemParts -> <<>>

PromptLine(msg) ==
    (IF msg.Role = <<"system">> THEN <<"user">> ELSE msg.Role)
        \o <<":">> \o TextOf(msg) \o <<";", "\r\n">>

\* where the line of message i starts in the prompt, counted from the lines
\* before it
LineStart(msgs, i) ==
    LET total[k \in 0..(i - 1)] ==
           IF k = 0 THEN 0 ELSE total[k - 1] + Len(PromptLine(msgs[k]))
    IN  total[i - 1] + 1

\* C12: for a request with a non-empty message list, the prompt is made of
\* exactly one "<role>:<content>;\r\n" line per message, in the order of the
\* messages and nothing else, with the role as given except that "system" is
\* written "user".
C12_PromptLines ==
    (Bound /\ request.Messages # <<>>) =>
        LET msgs == request.Messages
            n == Len(msgs)
        IN  /\ Len(content) = LineStart(msgs, n) + Len(PromptLine(msgs[n])) - 1
            /\ \A i \in 1..n :
                 SubSeq(content, LineStart(msgs, i),
                        LineStart(msgs, i) + Len(PromptLine(msgs[i])) - 1)
                   = PromptLine(msgs[i])

C12_Witness ==
    /\ Bound
    /\ request.Messages = << MsgSystem, MsgAssistant >>
    /\ content = << "user", ":", "be brief", ";", "\r\n",
                    "assistant", ":", "p", "q", ";", "\r\n" >>

\* the same name but for the case of its letters
SameLetter(c, d) ==
    \/ c = d
    \/ \E i \in 1..Len(UpperCase) : {c, d} = {UpperCase[i], LowerCase[i]}

EqualFold(a, b) ==
    /\ Len(a) = Len(b)
    /\ \A i \in 1..Len(a) : SameLetter(a[i], b[i])

\* C13: every model name that is a recognized alias in any letter case is
\* converted to the alias's upstream identifier, and every other name, the
\* empty one included, to "gpt-4o-mini".
C13_ModelMapping ==
    Bound =>
        /\ EqualFold(request.Model, Claude3Haiku) => model = "claude-3-haiku-20240307"
        /\ EqualFold(request.Model, Llama33)
             => model = "meta-llama/Llama-3.3-70B-Instruct-Turbo"
        /\ EqualFold(request.Model, MistralSmall)
             => model = "mistralai/Mistral-Small-24B-Instruct-2501"
        /\ EqualFold(request.Model, O3Mini) => model = "o3-mini"
        /\ (\A alias \in {Claude3Haiku, Llama33, MistralSmall, O3Mini} :
               ~EqualFold(request.Model, alias))
             => model = "gpt-4o-mini"

C13_Witness ==
    /\ Bound
    /\ request.Model = <<"L", "L", "A", "M", "A", "-", "3", ".", "3", "-", "7", "0", "B">>
    /\ model = "meta-llama/Llama-3.3-70B-Instruct-Turbo"

C13_WitnessDefault ==
    /\ Bound
    /\ request.Model = <<>>
    /\ model = "gpt-4o-mini"

(***************************************************************************)
(* Token acquisition (checked under Spec).                                 *)
(***************************************************************************)
\* the last token acquisition returned a token, which the attempt now holds
TokenAcquired == pc = "send"

\* the last token acquisition failed, and nothing has been acquired since
TokenFailed ==
    /\ pc \in {"loop", "token", "done"}
    /\ attempts # <<>>
    /\ attempts[Len(attempts)].kind = "token"

\* the first method, in the order of Methods, for which the upstream host held
\* a token; 0 when it held none
FirstServing(served) ==
    IF \E k \in 1..Len(served) : served[k] # <<>>
    THEN CHOOSE k \in 1..Len(served) :
            /\ served[k] # <<>>
            /\ \A j \in 1..(k - 1) : served[j] = <<>>
    ELSE 0

\* C14, as claimed: a token acquisition goes through its four methods in order
\* and returns the token of the first method that yields one, having tried no
\* method after it; it fails only when all four methods, the status probe
\* included, have been tried and none yielded a token.
C14_AsClaimed ==
    LET k == FirstServing(acquisition.served)
    IN  /\ TokenAcquired =>
             /\ k >= 1
             /\ cred.token = acquisition.served[k]
             /\ acquisition.tried = SubSeq(Methods, 1, k)
        /\ TokenFailed =>
             /\ acquisition.tried = Methods
             /\ k = 0

\* what the code does instead: a failure comes either after all four methods or
\* straight after the landing page could not be fetched
C14_FailsAfterLandingPageOrAll ==
    LET k == FirstServing(acquisition.served)
    IN  /\ TokenAcquired =>
             /\ k >= 1
             /\ cred.token = acquisition.served[k]
             /\ acquisition.tried = SubSeq(Methods, 1, k)
        /\ TokenFailed =>
             \/ acquisition.tried = Methods /\ k = 0
             \/ /\ acquisition.tried = << "landing page" >>
                /\ acquisition.served[1] = <<>>
                /\ acquisition.served[2] = <<>>

C14_TokenHeldButNotTried ==
    /\ TokenFailed
    /\ acquisition.tried = << "landing page" >>
    /\ acquisition.served[4] # <<>>

(***************************************************************************)
(* The status check of the upstream response (checked under Spec).         *)
(***************************************************************************)
\* the status an attempt failed on, as its error text gives it ("%d")
FailedStatus(attempt) == attempt.err[2]

Translating == pc \in {"stream", "nonstream"}

ResponseFailed(i) == attempts[i].kind = "response"

\* some chunk has reached the caller
BytesSent == w.flushed > 0

\* C16, as claimed: once a chunk write has failed in a streaming attempt after
\* chunks were already sent to the caller, that attempt is over and no further
\* attempt is started: no token acquisition, no upstream request, no chunk
\* write.
C16_AsClaimed ==
    \A i \in 1..Len(attempts) :
        (request.Stream /\ ResponseFailed(i) /\ BytesSent)
            => /\ AttemptsStarted = i
               /\ pc \in {"loop", "done"}

\* the half of C16 that holds: the step in which the caller is found gone ends
\* the stream loop of the attempt and records the failure, and a streaming
\* attempt fails in no other way
C16_WriteFailureEndsLoop ==
    [][ /\ (pc = "stream" /\ ~w.broken /\ w'.broken)
            => /\ pc' = "loop"
               /\ Len(attempts') = Len(attempts) + 1
               /\ attempts'[Len(attempts')].kind = "response"
               /\ w'.body = w.body
        /\ (pc = "stream" /\ pc' = "loop") => w'.broken ]_vars

\* a second attempt is under way after chunks were sent and a write failed
C16_RetriedAfterChunks ==
    /\ request.Stream
    /\ Len(attempts) = 1
    /\ ResponseFailed(1)
    /\ BytesSent
    /\ pc = "stream"

(***************************************************************************)
(* What a non-streaming request writes (checked under Spec).               *)
(***************************************************************************)
\* the reader of the attempt stands at the terminal marker or past the end
ReadToEnd ==
    \/ resp.end = "EOF"
    \/ pos <= Len(resp.lines) /\ resp.lines[pos] = LineDone

\* C17, as claimed: in non-streaming mode nothing is written to the caller
\* while attempts fail or are under way; the first and only object written is
\* the chat.completion of an attempt that read its body to the terminal marker
\* or the end, or one error object, so that every finished request has
\* answered with exactly one object of one of these two kinds.
C17_AsClaimed ==
    ~request.Stream =>
        /\ pc # "done" => w.body = <<>> /\ w.status = 0
        /\ pc = "done" =>
             /\ Len(w.body) = 1
             /\ w.body[1].object \in {"chat.completion", "error"}
             /\ w.body[1].object = "chat.completion"
                  => outcome = "ok" /\ ReadToEnd

\* what holds of the code: nothing is written before the handler's last step,
\* and a finished request has answered with one such object, or, when the
\* loop was left with no failure recorded, with a bare status 500
C17_NothingBeforeTheEnd ==
    ~request.Stream =>
        /\ pc # "done" => w.body = <<>> /\ w.status = 0
        /\ pc = "done" =>
             IF outcome = "panic"
             THEN w.body = <<>> /\ w.status = StatusInternalServerError
             ELSE /\ Len(w.body) = 1
                  /\ w.body[1].object \in {"chat.completion", "error"}
                  /\ w.body[1].object = "chat.completion"
                       => outcome = "ok" /\ ReadToEnd

C17_AnsweredAfterFailures ==
    /\ ~request.Stream
    /\ outcome = "ok"
    /\ Len(attempts) = 3
    /\ attempts[2].kind = "response"
    /\ w.body = << Completion(<<"a">>) >>

\* the attempt met a read error that is not the end of the body and went on as
\* a success
ReadErrorSwallowed == outcome = "ok" /\ resp.end = "ERR"

\* C18, as claimed: in streaming as in non-streaming mode, an attempt whose
\* reading of the upstream body fails otherwise than by the end of the body is
\* a failed attempt followed by a retry, never a success.
C18_AsClaimed ==
    /\ ~ReadErrorSwallowed
    /\ \A i \in 1..Len(attempts) :
         attempts[i].err = ReadError(<<"connection reset">>)
           => /\ attempts[i].kind = "response"
              /\ retryCount >= i

\* in non-streaming mode the read error fails the attempt and the next attempt
\* answers
C18_NonStreamRetried ==
    /\ ~request.Stream
    /\ Len(attempts) = 2
    /\ attempts[1].err = ReadError(<<"connection reset">>)
    /\ attempts[2].kind = "ok"
    /\ retryCount = 1

\* in streaming mode the read error ends the only attempt as a success, after a
\* chunk and with no stop chunk
C18_StreamReadErrorSwallowed ==
    /\ request.Stream
    /\ ReadErrorSwallowed
    /\ Len(attempts) = 1
    /\ resp.lines = << LineA >>
    /\ w.body = << DeltaChunk(<<"a">>) >>

\* what holds: a read error is swallowed in streaming mode only
C18_OnlyNonStreamFails ==
    /\ ReadErrorSwallowed => request.Stream
    /\ \A i \in 1..Len(attempts) :
         attempts[i].err = ReadError(<<"connection reset">>)
           => /\ ~request.Stream
              /\ attempts[i].kind = "response"
              /\ retryCount >= i

\* the reader of a streamed response came to the end of the body, no [DONE]
\* line having ended the loop before
EndedWithoutDone == request.Stream /\ resp.end = "EOF"

\* C19: in streaming mode, when the upstream body ends without a [DONE]
\* record, the handler returns with no chunk of finish_reason "stop" written,
\* and the attempt is a success: it is the last attempt, the retry counter is
\* not advanced for it, and neither a status 500 nor an error object is
\* written.
C19_EndWithoutDone ==
    EndedWithoutDone =>
        /\ pc = "done"
        /\ outcome = "ok"
        /\ StopChunksWritten = 0
        /\ attempts[Len(attempts)].kind = "ok"
        /\ retryCount = Len(attempts) - 1
        /\ w.status = StatusOK
        /\ \A i \in 1..Len(w.body) : w.body[i].object = "chat.completion.chunk"

C19_Witness ==
    /\ EndedWithoutDone
    /\ resp.lines = << LineA, LineB >>
    /\ resp.rest = <<>>
    /\ Len(attempts) = 1
    /\ w.body = << DeltaChunk(<<"a">>), DeltaChunk(<<"b">>) >>
    /\ outcome = "ok"

(***************************************************************************)
(* Which success records become a chunk (checked under SpecRecords).       *)
(***************************************************************************)
\* the delta chunks for the lines of a body that belong to a set of lines, in
\* the order of the body
RECURSIVE ChunksFor(_, _)
ChunksFor(lines, chosen) ==
    IF lines = <<>> THEN <<>>
    ELSE (IF Head(lines) \in chosen
          THEN << DeltaChunk(FragmentOf(Head(lines))) >>
          ELSE <<>>) \o ChunksFor(Tail(lines), chosen)

\* the stream loop of a first attempt is running: what the caller has received
\* comes from the records read so far
Streaming == request.Stream /\ pc = "stream" /\ attempts = <<>>

RecordsRead == SubSeq(resp.lines, 1, pos - 1)

\* C20, as claimed: in streaming mode the chunks written are those of the
\* success records that carry a non-empty text, one each; a record whose message
\* is the empty string, absent, null or not a string gives none.
C20_AsClaimed ==
    Streaming => w.body = ChunksFor(RecordsRead, {LineA})

\* C20, amended: in streaming mode the chunks written are those of the success
\* records whose message is a string, the empty string included (its chunk has
\* an empty content); a record whose message is absent, null or not a string
\* gives none.
C20_ChunkPerStringMessage ==
    Streaming => w.body = ChunksFor(RecordsRead, {LineA, LineEmpty})

C20_Witness ==
    /\ Streaming
    /\ resp.lines = << LineEmpty, LineNull, LineA >>
    /\ pos = 4
    /\ w.body = << DeltaChunk(<<>>), DeltaChunk(<<"a">>) >>

C20_WitnessOthers ==
    /\ Streaming
    /\ resp.lines = << LineAbsent, LineNumber, LineNull >>
    /\ pos = 4
    /\ w.body = <<>>

(***************************************************************************)
(* Properties of the upstream request (checked under SpecBuilds).          *)
(***************************************************************************)
\* the step that builds the upstream request of an attempt; cred then is what
\* the token acquisition of the attempt returned
RequestBuilt == pc = "send" /\ pc' = "do"

HashHeader(req, vqdHash) ==
    IF vqdHash # <<>>
    THEN "x-vqd-hash-1" \in DOMAIN req /\ req["x-vqd-hash-1"] = vqdHash
    ELSE "x-vqd-hash-1" \notin DOMAIN req

\* a request is built, and sent, only in an attempt whose acquisition succeeded:
\* a failed acquisition ends the attempt, and the request is built from what a
\* successful one returned and sent from nowhere else
OnlyAfterAcquisition ==
    /\ (pc = "token" /\ attempts' # attempts)
           => (pc' = "loop" /\ upstreamReq' = NoRequest)
    /\ pc' = "send" => (pc = "token" /\ attempts' = attempts /\ cred'.token # <<>>)
    /\ (upstreamReq' # NoRequest /\ upstreamReq' # upstreamReq) => RequestBuilt
    /\ (pc = "do" /\ pc' # "do") => upstreamReq # NoRequest

\* C21, as claimed: every upstream chat request carries as x-vqd-4 the token the
\* acquisition of the same attempt returned, and x-vqd-hash-1 if and only if
\* that acquisition returned a non-empty hash; no request is sent in an attempt
\* whose acquisition failed.
C21_AsClaimed ==
    [][ /\ RequestBuilt => /\ upstreamReq'["x-vqd-4"] = cred.token
                           /\ HashHeader(upstreamReq', cred.vqdHash)
        /\ OnlyAfterAcquisition ]_vars

\* C21, amended: the token carried as x-vqd-4 is the one the acquisition of the
\* same attempt returned, except that the variant with the hard-coded credential
\* sends its fixed multi-turn token for a request of more than one message;
\* x-vqd-hash-1 is carried if and only if the acquisition returned a non-empty
\* hash; no request is sent in an attempt whose acquisition failed.
C21_TokenOfTheAttempt ==
    [][ /\ RequestBuilt =>
              /\ upstreamReq'["x-vqd-4"] =
                     IF build = HardcodedBuild /\ Len(request.Messages) > 1
                     THEN MultiTurnToken
                     ELSE cred.token
              /\ HashHeader(upstreamReq', cred.vqdHash)
        /\ OnlyAfterAcquisition ]_vars

\* a retried request of the variant, with a history: the multi-turn token and
\* the hard-coded hash are on the request about to be sent
C21_Witness ==
    /\ build = HardcodedBuild
    /\ Len(request.Messages) > 1
    /\ pc = "do"
    /\ Len(attempts) = 1
    /\ upstreamReq = UpstreamHeadersAlwaysHash(MultiTurnToken, HardcodedHash)

\* main.go, after a failed acquisition: the scraped token and no hash
C21_WitnessScraped ==
    /\ build = MainBuild
    /\ pc = "do"
    /\ Len(attempts) = 1
    /\ attempts[1].kind = "token"
    /\ DOMAIN upstreamReq = {"x-vqd-4"}
    /\ upstreamReq["x-vqd-4"] = <<"t4">>

(***************************************************************************)
(* Properties of the delays (checked under Spec).                          *)
(***************************************************************************)
\* C22: exactly one delay of RetryDelay precedes every attempt except the first,
\* so that with a attempts started (a >= 1) exactly a-1 delays have been slept;
\* a delay happens only on entry to an attempt after the first: not before the
\* first attempt, not after a successful attempt, and not between the final
\* failed attempt and the 500 response.
C22_OneDelayPerRetry ==
    /\ [](delays = Sleeps(Max(AttemptsStarted, 1) - 1))
    /\ [][ /\ delays' # delays =>
                /\ pc = "loop" /\ pc' = "token"
                /\ Len(attempts) >= 1
                /\ attempts[Len(attempts)].kind # "ok"
                /\ delays' = Append(delays, RetryDelay)
           /\ (pc = "loop" /\ pc' = "token" /\ Len(attempts) >= 1) =>
                delays' = Append(delays, RetryDelay)
           /\ pc' = "done" => delays' = delays ]_vars

\* three failed attempts and the 500: two delays, none after the last failure
C22_Witness ==
    /\ outcome = "exhausted"
    /\ MaxRetry = 2
    /\ Len(attempts) = 3
    /\ delays = << RetryDelay, RetryDelay >>
    /\ w.status = StatusInternalServerError

\* a success at the second attempt: one delay, none after the success
C22_WitnessSuccess ==
    /\ outcome = "ok"
    /\ Len(attempts) = 2
    /\ attempts[1].kind = "status"
    /\ delays = << RetryDelay >>

(***************************************************************************)
(* The chunks of a streamed response across attempts (checked under        *)
(* SpecBridge).                                                            *)
(***************************************************************************)
ChunkWritten == \E i \in 1..Len(w.body) : w.body[i].object = "chat.completion.chunk"

\* C23: in streaming mode the caller receives chunks from at most one attempt:
\* whenever something is written, everything written before it is what the
\* attempt under way made of the records it has read, so that an attempt's
\* first chunk is the first of the response; an attempt that fails after a
\* chunk was written leaves the caller gone, and from then on nothing is
\* written, neither a chunk of a later attempt nor the 500 error body.
C23_ChunksOfOneAttempt ==
    /\ [](request.Stream /\ ChunkWritten
             => \A i \in 1..Len(w.body) : w.body[i].object = "chat.completion.chunk")
    /\ [][ request.Stream =>
             /\ (w'.body # w.body /\ w'.body[Len(w'.body)].object # "error")
                  => /\ pc = "stream"
                     /\ w.body = DeltasOf(RecordsRead)
                     /\ Len(w'.body) = Len(w.body) + 1
             /\ (ChunkWritten /\ pc = "stream" /\ pc' = "loop") => w'.broken
             /\ (ChunkWritten /\ w.broken) => (w'.body = w.body /\ w'.broken)
             /\ (ChunkWritten /\ pc' = "done" /\ outcome' # "ok")
                  => (w'.body = w.body /\ w'.status = StatusOK) ]_vars

\* two attempts failed on writing after the first had sent a chunk, and the
\* loop is exhausted: the response still is that one chunk under status 200
C23_Witness ==
    /\ request.Stream
    /\ outcome = "exhausted"
    /\ Len(attempts) = 2
    /\ ResponseFailed(1)
    /\ ResponseFailed(2)
    /\ w.body = << DeltaChunk(<<"a">>) >>
    /\ w.status = StatusOK

(***************************************************************************)
(* The failure recorded when the loop is left (checked under Spec).        *)
(***************************************************************************)
\* the handler left the loop without a successful attempt (main.go 205-206)
ExhaustedReached == pc = "done" /\ outcome \in {"exhausted", "panic"}

\* C24, as claimed: whenever the Exhausted path is reached a failure has been
\* recorded (lastError is set), for every value of MaxRetryCount, zero and the
\* negative ones included.
C24_AsClaimed ==
    ExhaustedReached => lastError # NilError

\* MaxRetryCount is negative: the loop body never ran, and the Exhausted path
\* is reached with lastError unset
C24_ExhaustedWithoutFailure ==
    /\ ExhaustedReached
    /\ MaxRetry < 0
    /\ attempts = <<>>
    /\ lastError = NilError
    /\ outcome = "panic"

(***************************************************************************)
(* The last record of a body that does not end with a line end (checked    *)
(* under SpecBridge).                                                      *)
(***************************************************************************)
\* an attempt completed and everything it wrote reached the caller
Completed == outcome = "ok" /\ ~w.broken

\* the records of the body the attempt read: its lines and, when the body
\* ended without a line end, the record left unterminated
AllRecords ==
    resp.lines \o (IF resp.rest = <<>> THEN <<>> ELSE << resp.rest \o <<"\n">> >>)

\* what a completed attempt has written when it translated these records
TranslationOf(records) ==
    IF request.Stream
    THEN ExpectedChunks(records)
    ELSE << Completion(ExpectedText(records)) >>

\* C25, as claimed: every "data: " record of the body is translated, a final
\* record without a line end included: a last unterminated success record
\* contributes its fragment and a last unterminated [DONE] yields the stop chunk
\* in streaming mode.
C25_AsClaimed ==
    Completed => w.body = TranslationOf(AllRecords)

\* what holds of the code: a completed attempt has translated the
\* newline-terminated "data: " records of the body up to the first [DONE], and
\* not a final record without a line end: such a success record contributes no
\* fragment and such a [DONE] yields no stop chunk
C25_TerminatedRecordsOnly ==
    Completed =>
        /\ w.body = TranslationOf(resp.lines)
        /\ (request.Stream /\ ~HasDone(resp.lines)) => StopChunksWritten = 0

\* a streamed body of one record and an unterminated [DONE]: no stop chunk
C25_Witness ==
    /\ Completed
    /\ request.Stream
    /\ resp.lines = << LineA >>
    /\ resp.rest = << "data: ", "[DONE]" >>
    /\ w.body = << DeltaChunk(<<"a">>) >>

\* an aggregated body of one record and an unterminated success record: the
\* content is the first record's alone
C25_WitnessAggregate ==
    /\ Completed
    /\ ~request.Stream
    /\ resp.lines = << LineB >>
    /\ resp.rest = << "data: ", "{action:success,message:a}" >>
    /\ w.body = << Completion(<<"b">>) >>

(***************************************************************************)
(* Termination (checked under SpecLive).                                   *)
(***************************************************************************)
\* the four ways a request ends, by what the handler did last and the status
\* of the response; a 500 cannot replace the status of a streamed response
\* whose header went out before the caller was found gone
Ends401 == outcome = "401" /\ w.status = StatusUnauthorized
Ends400 == outcome = "400" /\ w.status = StatusBadRequest
EndsTranslated == outcome = "ok" /\ w.status = StatusOK
Ends500 ==
    /\ outcome \in {"exhausted", "panic"}
    /\ w.status = StatusInternalServerError \/ (request.Stream /\ w.broken)

EndsCounted ==
    Cardinality({ k \in {"401", "400", "translated", "500"} :
                    \/ k = "401" /\ Ends401
                    \/ k = "400" /\ Ends400
                    \/ k = "translated" /\ EndsTranslated
                    \/ k = "500" /\ Ends500 })

====
